---- MODULE Spec2Model ----
(***************************************************************************)
(* The weekly staff planning of ECOFUTE: the planning component            *)
(* (src/src/components/admin/Planning.vue) against the event routes        *)
(* (src/frontend/backend/routes/events.js).                                *)
(*                                                                         *)
(* Time.  An instant (a JavaScript Date) is an integer number of slots     *)
(* since the epoch, SlotsPerDay slots to a day.  tz is the offset of the   *)
(* browser's local time from UTC, in slots: local = UTC + tz.  A date      *)
(* string 'yyyy-MM-dd' is the number of its day; new Date(string) is UTC   *)
(* midnight of that day, startOfWeek / isSameDay / format work on local    *)
(* days.  The offset is constant over a run (no daylight-saving change),   *)
(* so addDays(d, n) is d + n days.                                         *)
(***************************************************************************)
EXTENDS Integers, Sequences, FiniteSets, TLC

\* ------------------------------------------------------------------ bounds
MaxTimeLen == 3
SlotsPerDay == 2
NumWeeks == 3
MaxOps == 2
MaxEvents == 2

\* --------------------------------------------------------------- constants
DaysPerWeek == 7
WeekEndOffset == 6

\* JavaScript's null (assignedTo of an unassigned shift, editingEvent)
NULL == "null"

\* The time value of an Invalid Date (NaN): every comparison with it is false
InvalidDate == -1

\* The empty date string '' of a form field
EmptyDateStr == -1

\* A non-empty string that new Date() cannot parse
BadDateStr == -2

VARIABLES tz, currentWeekStart, events, teamMembers, showEventDialog, showOptionsDialog, editingEvent, isLoading, filterEmployeeId, eventForm, notice, calls, db, nextId, started

vars == <<tz, currentWeekStart, events, teamMembers, showEventDialog, showOptionsDialog, editingEvent, isLoading, filterEmployeeId, eventForm, notice, calls, db, nextId, started>>

\* ------------------------------------------------------------ date helpers
\* Offsets of the local time zone from UTC, in slots
TZOffsets == {-1, 0, 1}

\* The first day of the model's calendar is a Monday; day 0..6 is left free
\* so that every instant of the calendar is positive.
FirstDay == DaysPerWeek

LastDay == FirstDay + DaysPerWeek * NumWeeks - 1

Days == FirstDay..LastDay

\* new Date('yyyy-MM-dd'): UTC midnight of the day; '' and garbage give Invalid Date
ParseDate(s) == IF s >= 0 THEN s * SlotsPerDay ELSE InvalidDate

IsValidDate(d) == d # InvalidDate

\* a <= b on two Dates (valueOf comparison; false when either is NaN)
DateLeq(a, b) == IsValidDate(a) /\ IsValidDate(b) /\ a <= b

\* date-fns addDays(date, amount): the same local time, amount days later
addDays(d, n) == IF IsValidDate(d) THEN d + n * SlotsPerDay ELSE InvalidDate

\* The local calendar day an instant falls on
LocalDay(d, z) == (d + z) \div SlotsPerDay

\* Local midnight of a local day, as an instant
LocalMidnight(day, z) == day * SlotsPerDay - z

\* startOfWeek(date) with the default weekStartsOn: local midnight of the Sunday on or before
startOfWeekSunday(d, z) == LocalMidnight(LocalDay(d, z) - ((LocalDay(d, z) - FirstDay + 1) % DaysPerWeek), z)

\* date-fns startOfWeek(date, { weekStartsOn: 1 }): local midnight of the Monday on or before
startOfWeek(d, z) == LocalMidnight(LocalDay(d, z) - ((LocalDay(d, z) - FirstDay) % DaysPerWeek), z)

\* date-fns isSameDay(a, b): the same local calendar day
isSameDay(a, b, z) == IsValidDate(a) /\ IsValidDate(b) /\ LocalDay(a, z) = LocalDay(b, z)

\* date-fns format(date, 'yyyy-MM-dd'): the local day as a date string
FormatDate(d, z) == LocalDay(d, z)

\* The instant new Date() returns: the second slot of the Wednesday of the second week
Now == (FirstDay + DaysPerWeek + 2) * SlotsPerDay + 1

\* --------------------------------------------------------- shifts and forms
\* The roster served by GET /api/users: every entry has a color
Roster == << [id |-> "u1", color |-> "red"], [id |-> "u2", color |-> "green"] >>

\* A well-formed HH:MM string, as a sequence of tokens
T0900 == <<"09:00">>

T1700 == <<"17:00">>

\* The literal separator of the composite time string
TimeSep == <<" - ">>

\* The composite string with a bare dash between its parts
TimeStringDash(startTime, endTime) == startTime \o <<"-">> \o endTime

\* `${formData.startTime} - ${formData.endTime}`
TimeString(startTime, endTime) == startTime \o TimeSep \o endTime

\* The initial value of eventForm
BlankForm == [title |-> "", date |-> EmptyDateStr, startTime |-> T0900, endTime |-> T1700, description |-> "", color |-> "blue", assignedTo |-> "", recurrence |-> FALSE, recurrenceEndDate |-> EmptyDateStr]

\* teamMembers.value.find(m => m.id === id): <<the first match>>, or <<>> for undefined
FindMember(members, id) == LET found == SelectSeq(members, LAMBDA m : m.id = id) IN IF found = <<>> THEN <<>> ELSE <<Head(found)>>

\* The color of the form, whoever is selected
EventColorOfForm(form, members) == form.color

\* Auto-assign color if user is selected
EventColor(form, members) == IF form.assignedTo # "" /\ FindMember(members, form.assignedTo) # <<>> /\ Head(FindMember(members, form.assignedTo)).color # "" THEN Head(FindMember(members, form.assignedTo)).color ELSE form.color

\* baseEventData merged with a date: one element of a request body
Payload(form, members, date) == [title |-> form.title, date |-> date, time |-> TimeString(form.startTime, form.endTime), description |-> form.description, color |-> EventColor(form, members), assignedTo |-> IF form.assignedTo # "" THEN form.assignedTo ELSE NULL, type |-> "planning"]

\* The weekly loop with the test currentDateLoop < endDate
RECURSIVE WeeklyDatesStrict(_, _)
WeeklyDatesStrict(currentDateLoop, endDate) == IF IsValidDate(currentDateLoop) /\ IsValidDate(endDate) /\ currentDateLoop < endDate THEN <<currentDateLoop>> \o WeeklyDatesStrict(addDays(currentDateLoop, DaysPerWeek), endDate) ELSE <<>>

\* The weekly loop as a do-while: the start date is pushed before any test
RECURSIVE WeeklyDatesDoWhile(_, _)
WeeklyDatesDoWhile(currentDateLoop, endDate) == <<currentDateLoop>> \o (IF DateLeq(addDays(currentDateLoop, DaysPerWeek), endDate) THEN WeeklyDatesDoWhile(addDays(currentDateLoop, DaysPerWeek), endDate) ELSE <<>>)

\* The weekly loop of saveEvent: the dates pushed to eventsToCreate
RECURSIVE WeeklyDates(_, _)
WeeklyDates(currentDateLoop, endDate) == IF DateLeq(currentDateLoop, endDate) THEN <<currentDateLoop>> \o WeeklyDates(addDays(currentDateLoop, DaysPerWeek), endDate) ELSE <<>>

\* eventsToCreate of saveEvent
EventsToCreate(form, members) == LET dates == WeeklyDates(ParseDate(form.date), ParseDate(form.recurrenceEndDate)) IN [i \in 1..Len(dates) |-> Payload(form, members, dates[i])]

\* The form without its required attributes
FormUnchecked(form) == TRUE

\* The values an input of type time can hold: well-formed 24-hour HH:MM
WellFormedTimes == {T0900, T1700, <<"18:00">>, <<"22:00">>}

\* The required attributes of the title, date and time inputs: the browser
\* fires submit only when each holds a value
FormSubmittable(form) == form.title # "" /\ form.date # EmptyDateStr /\ form.startTime \in WellFormedTimes /\ form.endTime \in WellFormedTimes

\* ------------------------------------------------------------ calls in flight
\* One Event Store call: verb, the operation awaiting it, its stage
\* ("sent": not yet handled by the server, "done": response on its way),
\* the id in the URL, the request body and the response body.
Call(verb, op, id, payload) == [verb |-> verb, op |-> op, stage |-> "sent", id |-> id, payload |-> payload, resp |-> <<>>]

Writes == {"POST", "BATCH", "PUT", "DELETE"}

RemoveAt(s, i) == [j \in 1..(Len(s) - 1) |-> IF j < i THEN s[j] ELSE s[j + 1]]

\* The bound on the operations a run starts
CanIssue == started < MaxOps

\* ------------------------------------------------------------- the facade
\* fetchEvents up to its await: Loading, GET /api/events?type=planning sent
\* on behalf of operation op ("fetch" when called from the menu or on mount)
IssueFetch(op) == /\ isLoading' = TRUE
                  /\ calls' = Append(calls, Call("GET", op, 0, <<>>))

\* The "Actualiser" entry of the options menu
FetchEvents == /\ showOptionsDialog /\ ~showEventDialog /\ CanIssue
               /\ started' = started + 1
               /\ IssueFetch("fetch")
               /\ notice' = "none"
               /\ UNCHANGED <<tz, filterEmployeeId, currentWeekStart, events, teamMembers, showEventDialog, showOptionsDialog, editingEvent, eventForm, db, nextId>>

\* editingEvent.value && editingEvent.value.id
IsEditing == editingEvent # <<>> /\ Head(editingEvent).id # 0

\* formData.recurrence && formData.recurrenceEndDate
WantsRecurrence(form) == form.recurrence /\ form.recurrenceEndDate # EmptyDateStr

\* The request with the recurrence test made before the edit test
SaveRequestRecurrenceFirst(form, members, editing) == IF WantsRecurrence(form) THEN (IF Len(EventsToCreate(form, members)) > 0 THEN <<Call("BATCH", "save", 0, EventsToCreate(form, members))>> ELSE <<>>) ELSE IF editing # <<>> /\ Head(editing).id # 0 THEN <<Call("PUT", "save", Head(editing).id, <<Payload(form, members, ParseDate(form.date))>>)>> ELSE <<Call("POST", "save", 0, <<Payload(form, members, ParseDate(form.date))>>)>>

\* The request saveEvent sends, as a sequence of at most one call
SaveRequest(form, members, editing) == IF editing # <<>> /\ Head(editing).id # 0 THEN <<Call("PUT", "save", Head(editing).id, <<Payload(form, members, ParseDate(form.date))>>)>> ELSE IF WantsRecurrence(form) THEN (IF Len(EventsToCreate(form, members)) > 0 THEN <<Call("BATCH", "save", 0, EventsToCreate(form, members))>> ELSE <<>>) ELSE <<Call("POST", "save", 0, <<Payload(form, members, ParseDate(form.date))>>)>>

\* saveEvent treating an empty eventsToCreate as a failed save
SaveEventEmptyAlert == /\ showEventDialog /\ FormSubmittable(eventForm) /\ CanIssue
                       /\ started' = started + 1
                       /\ calls' = calls \o SaveRequest(eventForm, teamMembers, editingEvent)
                       /\ IF SaveRequest(eventForm, teamMembers, editingEvent) # <<>> THEN notice' = "none" /\ isLoading' = TRUE ELSE notice' = "Erreur lors de la sauvegarde" /\ isLoading' = FALSE
                       /\ UNCHANGED <<tz, filterEmployeeId, currentWeekStart, events, teamMembers, showEventDialog, showOptionsDialog, editingEvent, eventForm, db, nextId>>

\* saveEvent up to its first await; with nothing to send it runs to its end
SaveEvent == /\ showEventDialog /\ FormSubmittable(eventForm) /\ CanIssue
             /\ started' = started + 1
             /\ calls' = calls \o SaveRequest(eventForm, teamMembers, editingEvent)
             /\ notice' = "none"
             /\ IF SaveRequest(eventForm, teamMembers, editingEvent) # <<>> THEN isLoading' = TRUE /\ UNCHANGED <<showEventDialog, editingEvent>> ELSE isLoading' = FALSE /\ showEventDialog' = FALSE /\ editingEvent' = <<>>
             /\ UNCHANGED <<tz, filterEmployeeId, currentWeekStart, events, teamMembers, showOptionsDialog, eventForm, db, nextId>>

\* The "Supprimer" button of the dialog, confirmed: deleteEvent up to its
\* await, then showEventDialog = false
DeleteEvent == /\ showEventDialog /\ editingEvent # <<>> /\ CanIssue
               /\ started' = started + 1
               /\ calls' = Append(calls, Call("DELETE", "delete", Head(editingEvent).id, <<>>))
               /\ showEventDialog' = FALSE
               /\ notice' = "none"
               /\ UNCHANGED <<tz, filterEmployeeId, currentWeekStart, events, teamMembers, showOptionsDialog, editingEvent, isLoading, eventForm, db, nextId>>

\* The "Supprimer" button with the confirmation declined
DeclineDelete == /\ showEventDialog /\ editingEvent # <<>>
                 /\ showEventDialog' = FALSE
                 /\ notice' = "none"
                 /\ UNCHANGED <<tz, filterEmployeeId, currentWeekStart, events, teamMembers, showOptionsDialog, editingEvent, isLoading, eventForm, calls, db, nextId, started>>

\* The filter with the window closed one week after its start
EventsToCopyWide(evts, weekStart) == SelectSeq(evts, LAMBDA e : DateLeq(addDays(weekStart, -DaysPerWeek), e.date) /\ DateLeq(e.date, addDays(addDays(weekStart, -DaysPerWeek), DaysPerWeek)))

\* Find events from last week
EventsToCopy(evts, weekStart) == SelectSeq(evts, LAMBDA e : DateLeq(addDays(weekStart, -DaysPerWeek), e.date) /\ DateLeq(e.date, addDays(addDays(weekStart, -DaysPerWeek), WeekEndOffset)))

\* The copy without the assignment of its source
CopyOfUnassigned(e) == [title |-> e.title, date |-> addDays(e.date, DaysPerWeek), time |-> e.time, description |-> e.description, color |-> e.color, assignedTo |-> NULL, type |-> "planning"]

\* One element of newEventsPayload
CopyOf(e) == [title |-> e.title, date |-> addDays(e.date, DaysPerWeek), time |-> e.time, description |-> e.description, color |-> e.color, assignedTo |-> e.assignedTo, type |-> "planning"]

\* newEventsPayload
NewEventsPayload(evts, weekStart) == LET src == EventsToCopy(evts, weekStart) IN [i \in 1..Len(src) |-> CopyOf(src[i])]

\* duplicatePreviousWeek without its test of an empty source week
DuplicatePreviousWeekUnguarded == /\ showOptionsDialog /\ ~showEventDialog /\ CanIssue
                                  /\ started' = started + 1
                                  /\ notice' = "none" /\ isLoading' = TRUE /\ calls' = Append(calls, Call("BATCH", "dup", 0, NewEventsPayload(events, currentWeekStart)))
                                  /\ UNCHANGED <<tz, filterEmployeeId, currentWeekStart, events, teamMembers, showEventDialog, showOptionsDialog, editingEvent, eventForm, db, nextId>>

\* duplicatePreviousWeek, confirmed, up to its await; with nothing to copy
\* it runs to its end
DuplicatePreviousWeek == /\ showOptionsDialog /\ ~showEventDialog /\ CanIssue
                         /\ started' = started + 1
                         /\ IF Len(EventsToCopy(events, currentWeekStart)) = 0 THEN notice' = "Aucun shift trouve la semaine derniere." /\ isLoading' = FALSE /\ showOptionsDialog' = FALSE /\ calls' = calls ELSE notice' = "none" /\ isLoading' = TRUE /\ showOptionsDialog' = showOptionsDialog /\ calls' = Append(calls, Call("BATCH", "dup", 0, NewEventsPayload(events, currentWeekStart)))
                         /\ UNCHANGED <<tz, filterEmployeeId, currentWeekStart, events, teamMembers, showEventDialog, editingEvent, eventForm, db, nextId>>

\* ---------------------------------------------------------- the Event Store
\* JSON null for an Invalid Date; new Date(null) on the server is the epoch
ServerDate(d) == IF IsValidDate(d) THEN d ELSE 0

\* prisma.event.create: the row stored for one element of a request body
Row(e, id) == [id |-> id, title |-> e.title, date |-> ServerDate(e.date), time |-> e.time, description |-> e.description, color |-> e.color, assignedTo |-> e.assignedTo, type |-> IF e.type # "" THEN e.type ELSE "general"]

\* The rows a create request adds, ids in sequence from the next free one
CreatedRows(payload, firstId) == [i \in 1..Len(payload) |-> Row(payload[i], firstId + i - 1)]

\* prisma.event.update: every field of the body, the date only when it has one
Updated(row, e) == [row EXCEPT !.title = e.title, !.date = IF IsValidDate(e.date) THEN e.date ELSE row.date, !.time = e.time, !.description = e.description, !.color = e.color, !.assignedTo = e.assignedTo, !.type = e.type]

\* orderBy: { date: 'asc' }, rows of one date in insertion order
RECURSIVE InsertByDate(_, _)
InsertByDate(sorted, row) == IF sorted = <<>> THEN <<row>> ELSE IF row.date < Head(sorted).date THEN <<row>> \o sorted ELSE <<Head(sorted)>> \o InsertByDate(Tail(sorted), row)

RECURSIVE SortByDate(_)
SortByDate(rows) == IF rows = <<>> THEN <<>> ELSE InsertByDate(SortByDate(SubSeq(rows, 1, Len(rows) - 1)), rows[Len(rows)])

\* The rows of every type, by date
ListEventsAll(rows, type) == SortByDate(rows)

\* router.get('/'): the rows of the requested type, by date
ListEvents(rows, type) == SortByDate(SelectSeq(rows, LAMBDA r : r.type = type))

HasId(rows, id) == \E k \in 1..Len(rows) : rows[k].id = id

\* if (!title || !date) return res.status(400)
SingleValid(e) == e.title # "" /\ IsValidDate(e.date)

\* Whether the server can answer the call with success
ServerAccepts(c) == CASE c.verb = "GET" -> TRUE
                      [] c.verb = "POST" -> SingleValid(c.payload[1])
                      [] c.verb = "BATCH" -> TRUE
                      [] c.verb = "PUT" -> HasId(db, c.id)
                      [] c.verb = "DELETE" -> HasId(db, c.id)

\* The store after the call
ServerApply(c) == CASE c.verb = "GET" -> db
                    [] c.verb \in {"POST", "BATCH"} -> db \o CreatedRows(c.payload, nextId)
                    [] c.verb = "PUT" -> [k \in 1..Len(db) |-> IF db[k].id = c.id THEN Updated(db[k], c.payload[1]) ELSE db[k]]
                    [] c.verb = "DELETE" -> SelectSeq(db, LAMBDA r : r.id # c.id)

\* The response body
ServerReply(c) == CASE c.verb = "GET" -> ListEvents(db, "planning")
                    [] c.verb \in {"POST", "BATCH"} -> CreatedRows(c.payload, nextId)
                    [] c.verb = "PUT" -> SelectSeq(ServerApply(c), LAMBDA r : r.id = c.id)
                    [] c.verb = "DELETE" -> <<>>

\* The server handles call i and answers with success
ServerHandle(i) == /\ calls[i].stage = "sent"
                   /\ ServerAccepts(calls[i])
                   /\ db' = ServerApply(calls[i])
                   /\ nextId' = IF calls[i].verb \in {"POST", "BATCH"} THEN nextId + Len(calls[i].payload) ELSE nextId
                   /\ calls' = [calls EXCEPT ![i].stage = "done", ![i].resp = ServerReply(calls[i])]
                   /\ UNCHANGED <<tz, filterEmployeeId, currentWeekStart, events, teamMembers, showEventDialog, showOptionsDialog, editingEvent, isLoading, eventForm, notice, started>>

\* The store when the transaction stops at the first k - 1 creations
BatchAbortedPartial(rows, payload, firstId, k) == rows \o CreatedRows(SubSeq(payload, 1, k - 1), firstId)

\* prisma.$transaction(operations) when its k-th creation throws: the
\* creations before it are rolled back
BatchAborted(rows, payload, firstId, k) == rows

\* The server handles call i and a database operation throws (for a batch,
\* its k-th creation): the catch block answers 500
ServerFail(i) == /\ calls[i].stage = "sent"
                 /\ IF calls[i].verb = "BATCH" THEN \E k \in 1..Len(calls[i].payload) : db' = BatchAborted(db, calls[i].payload, nextId, k) ELSE db' = db
                 /\ calls' = [calls EXCEPT ![i].stage = "failed"]
                 /\ UNCHANGED <<tz, filterEmployeeId, currentWeekStart, events, teamMembers, showEventDialog, showOptionsDialog, editingEvent, isLoading, eventForm, notice, nextId, started>>

\* ------------------------------------------------- the facade's continuations
\* events.value.findIndex(e => e.id === editingEvent.value!.id) throws a
\* TypeError when editingEvent is null by now and there is an event to test
FindIndexThrows == editingEvent = <<>> /\ events # <<>>

\* events.value[index] = ... when the edited id is found
ReplaceEdited(evts, editing, row) == IF editing = <<>> THEN evts ELSE [k \in 1..Len(evts) |-> IF k = (CHOOSE m \in 1..Len(evts) : evts[m].id = Head(editing).id /\ \A n \in 1..(m - 1) : evts[n].id # Head(editing).id) THEN row ELSE evts[k]]

HasEdited(evts, editing) == editing # <<>> /\ \E k \in 1..Len(evts) : evts[k].id = Head(editing).id

\* The end of saveEvent's try block, then finally
SaveDone == /\ showEventDialog' = FALSE
            /\ editingEvent' = <<>>
            /\ isLoading' = FALSE
            /\ notice' = "none"

\* The catch block of saveEvent without its alert
SaveFailedSilent == /\ notice' = "none"
                    /\ isLoading' = FALSE
                    /\ UNCHANGED <<showEventDialog, editingEvent>>

\* The catch block of saveEvent, then finally
SaveFailed == /\ notice' = "Erreur lors de la sauvegarde"
              /\ isLoading' = FALSE
              /\ UNCHANGED <<showEventDialog, editingEvent>>

\* The batch answered by appending the created rows to the collection
AfterBatchAppend(i) == /\ calls' = RemoveAt(calls, i)
                       /\ events' = events \o calls[i].resp

\* await api.post('/api/events', batch) has returned: await fetchEvents()
\* sends its GET, the collection waits for its answer
AfterBatch(i) == /\ calls' = Append(RemoveAt(calls, i), Call("GET", calls[i].op, 0, <<>>))
                 /\ events' = events

\* The created shift put in front of the collection
AfterCreateUnshift(i) == events' = <<calls[i].resp[1]>> \o events

\* events.value.push({ ...res.data, date: new Date(res.data.date) })
AfterCreate(i) == events' = Append(events, calls[i].resp[1])

\* The removal by the id of the shift under edit when the answer arrives
AfterDeleteEdited(i) == events' = IF editingEvent = <<>> THEN events ELSE SelectSeq(events, LAMBDA e : e.id # Head(editingEvent).id)

\* events.value = events.value.filter(e => e.id !== eventId)
AfterDelete(i) == events' = SelectSeq(events, LAMBDA e : e.id # calls[i].id)

\* The success response of call i reaches the operation awaiting it
Resolve(i) == /\ calls[i].stage = "done"
              /\ LET c == calls[i] IN
                 CASE c.verb = "GET" /\ c.op = "fetch" -> /\ events' = c.resp
                                                          /\ isLoading' = FALSE
                                                          /\ notice' = "none"
                                                          /\ calls' = RemoveAt(calls, i)
                                                          /\ UNCHANGED <<showEventDialog, showOptionsDialog, editingEvent>>
                   [] c.verb = "GET" /\ c.op = "save" -> /\ events' = c.resp
                                                         /\ SaveDone
                                                         /\ calls' = RemoveAt(calls, i)
                                                         /\ UNCHANGED showOptionsDialog
                   [] c.verb = "GET" /\ c.op = "dup" -> /\ events' = c.resp
                                                        /\ isLoading' = FALSE
                                                        /\ showOptionsDialog' = FALSE
                                                        /\ notice' = "none"
                                                        /\ calls' = RemoveAt(calls, i)
                                                        /\ UNCHANGED <<showEventDialog, editingEvent>>
                   [] c.verb = "BATCH" -> /\ isLoading' = TRUE
                                          /\ AfterBatch(i)
                                          /\ notice' = "none"
                                          /\ UNCHANGED <<showEventDialog, showOptionsDialog, editingEvent>>
                   [] c.verb = "POST" -> /\ AfterCreate(i)
                                         /\ SaveDone
                                         /\ calls' = RemoveAt(calls, i)
                                         /\ UNCHANGED showOptionsDialog
                   [] c.verb = "PUT" -> /\ calls' = RemoveAt(calls, i)
                                        /\ IF FindIndexThrows THEN SaveFailed /\ events' = events ELSE SaveDone /\ events' = IF HasEdited(events, editingEvent) THEN ReplaceEdited(events, editingEvent, c.resp[1]) ELSE events
                                        /\ UNCHANGED showOptionsDialog
                   [] c.verb = "DELETE" -> /\ AfterDelete(i)
                                           /\ notice' = "none"
                                           /\ calls' = RemoveAt(calls, i)
                                           /\ UNCHANGED <<showEventDialog, showOptionsDialog, editingEvent, isLoading>>
              /\ UNCHANGED <<tz, filterEmployeeId, currentWeekStart, teamMembers, eventForm, db, nextId, started>>

\* Call i fails (a transport error, or the server's 400 / 500 answer) and the
\* operation awaiting it runs its catch block
Reject(i) == /\ LET c == calls[i] IN
                CASE c.verb = "GET" /\ c.op = "fetch" -> /\ isLoading' = FALSE
                                                         /\ notice' = "none"
                                                         /\ UNCHANGED <<showEventDialog, showOptionsDialog, editingEvent>>
                  [] c.verb = "GET" /\ c.op = "save" -> SaveDone /\ UNCHANGED showOptionsDialog
                  [] c.verb = "GET" /\ c.op = "dup" -> /\ isLoading' = FALSE
                                                       /\ showOptionsDialog' = FALSE
                                                       /\ notice' = "none"
                                                       /\ UNCHANGED <<showEventDialog, editingEvent>>
                  [] c.verb \in {"POST", "PUT", "BATCH"} /\ c.op = "save" -> SaveFailed /\ UNCHANGED showOptionsDialog
                  [] c.verb = "BATCH" /\ c.op = "dup" -> /\ notice' = "Erreur lors de la duplication"
                                                         /\ isLoading' = FALSE
                                                         /\ showOptionsDialog' = FALSE
                                                         /\ UNCHANGED <<showEventDialog, editingEvent>>
                  [] c.verb = "DELETE" -> /\ notice' = "Erreur lors de la suppression"
                                          /\ UNCHANGED <<showEventDialog, showOptionsDialog, editingEvent, isLoading>>
             /\ calls' = RemoveAt(calls, i)
             /\ UNCHANGED <<tz, filterEmployeeId, currentWeekStart, events, teamMembers, eventForm, db, nextId, started>>

\* ------------------------------------------------------------------ the grid
\* weekDays: the seven days from the window anchor
weekDays == [i \in 1..DaysPerWeek |-> addDays(currentWeekStart, i - 1)]

\* One row of the grid for a roster entry
RowOf(m) == [id |-> m.id, color |-> m.color]

\* The rows with the unassigned row pushed last
displayedRowsUnassignedLast == (IF filterEmployeeId = "all" THEN [k \in 1..Len(teamMembers) |-> RowOf(teamMembers[k])] ELSE [k \in 1..Len(FindMember(teamMembers, filterEmployeeId)) |-> RowOf(FindMember(teamMembers, filterEmployeeId)[k])]) \o <<[id |-> NULL, color |-> "#e4e4e7"]>>

\* displayedRows: the unassigned row, then the roster rows the filter keeps
displayedRows == <<[id |-> NULL, color |-> "#e4e4e7"]>> \o (IF filterEmployeeId = "all" THEN [k \in 1..Len(teamMembers) |-> RowOf(teamMembers[k])] ELSE [k \in 1..Len(FindMember(teamMembers, filterEmployeeId)) |-> RowOf(FindMember(teamMembers, filterEmployeeId)[k])])

\* The filter on the day alone
getEventsForCellAnyRow(memberId, date) == SelectSeq(events, LAMBDA e : isSameDay(e.date, date, tz))

\* find() in the place of filter(): the first match alone
getEventsForCellFirst(memberId, date) == LET found == SelectSeq(events, LAMBDA e : e.assignedTo = memberId /\ isSameDay(e.date, date, tz)) IN IF found = <<>> THEN <<>> ELSE <<found[1]>>

\* getEventsForCell(memberId, date)
getEventsForCell(memberId, date) == SelectSeq(events, LAMBDA e : e.assignedTo = memberId /\ isSameDay(e.date, date, tz))

\* The shifts the grid shows, each one clickable
ShownEvents == {e \in {events[k] : k \in 1..Len(events)} : \E r \in 1..Len(displayedRows), d \in 1..DaysPerWeek : \E j \in 1..Len(getEventsForCell(displayedRows[r].id, weekDays[d])) : getEventsForCell(displayedRows[r].id, weekDays[d])[j] = e}

\* ------------------------------------------------------------------- the UI
\* The week anchors the model lets the window reach
WeekStarts == {LocalMidnight(FirstDay + DaysPerWeek * w, tz) : w \in 0..(NumWeeks - 1)}

previousWeek == /\ ~showEventDialog
                /\ addDays(currentWeekStart, -DaysPerWeek) \in WeekStarts
                /\ currentWeekStart' = addDays(currentWeekStart, -DaysPerWeek)
                /\ UNCHANGED <<tz, events, teamMembers, showEventDialog, showOptionsDialog, editingEvent, isLoading, filterEmployeeId, eventForm, notice, calls, db, nextId, started>>

nextWeek == /\ ~showEventDialog
            /\ addDays(currentWeekStart, DaysPerWeek) \in WeekStarts
            /\ currentWeekStart' = addDays(currentWeekStart, DaysPerWeek)
            /\ UNCHANGED <<tz, events, teamMembers, showEventDialog, showOptionsDialog, editingEvent, isLoading, filterEmployeeId, eventForm, notice, calls, db, nextId, started>>

goToToday == /\ ~showEventDialog
             /\ currentWeekStart' = startOfWeek(Now, tz)
             /\ UNCHANGED <<tz, events, teamMembers, showEventDialog, showOptionsDialog, editingEvent, isLoading, filterEmployeeId, eventForm, notice, calls, db, nextId, started>>

\* The select of the header: 'all' or a roster id
SetFilter(f) == /\ ~showEventDialog
                /\ f = "all" \/ FindMember(teamMembers, f) # <<>>
                /\ filterEmployeeId' = f
                /\ UNCHANGED <<tz, currentWeekStart, events, teamMembers, showEventDialog, showOptionsDialog, editingEvent, isLoading, eventForm, notice, calls, db, nextId, started>>

\* showOptionsDialog = !showOptionsDialog
ToggleOptions == /\ ~showEventDialog
                 /\ showOptionsDialog' = ~showOptionsDialog
                 /\ UNCHANGED <<tz, currentWeekStart, events, teamMembers, showEventDialog, editingEvent, isLoading, filterEmployeeId, eventForm, notice, calls, db, nextId, started>>

\* openNewEventDialog(userId, date): "" stands for the call without arguments
\* (the Shift button), whose date is today
openNewEventDialog(userId, date) == /\ ~showEventDialog
                                    /\ editingEvent' = <<>>
                                    /\ eventForm' = [BlankForm EXCEPT !.date = FormatDate(date, tz), !.assignedTo = IF userId # NULL /\ userId # "" THEN userId ELSE IF filterEmployeeId # "all" THEN filterEmployeeId ELSE ""]
                                    /\ showEventDialog' = TRUE
                                    /\ UNCHANGED <<tz, currentWeekStart, events, teamMembers, showOptionsDialog, isLoading, filterEmployeeId, notice, calls, db, nextId, started>>

\* The positions of the separator in a time string
SepPositions(time) == {k \in 1..Len(time) : time[k] = TimeSep[1]}

\* The least element of a non-empty set of positions
FirstOf(positions) == CHOOSE k \in positions : \A m \in positions : k <= m

\* The parsing that keeps an empty part as it is
ParseTimeNoPartFallback(time) == IF time # <<>> /\ SepPositions(time) # {} THEN LET k == FirstOf(SepPositions(time)) n == IF \E m \in SepPositions(time) : m > k THEN FirstOf({m \in SepPositions(time) : m > k}) ELSE Len(time) + 1 IN <<SubSeq(time, 1, k - 1), SubSeq(time, k + 1, n - 1)>> ELSE <<T0900, T1700>>

\* The pair (start, end) openEditEventDialog parses from event.time: when
\* the string is there and includes ' - ', parts[0] and parts[1] of
\* split(' - '), each replaced by its fallback when empty; otherwise the
\* fallback pair
ParseTime(time) == IF time # <<>> /\ SepPositions(time) # {} THEN LET k == FirstOf(SepPositions(time)) n == IF \E m \in SepPositions(time) : m > k THEN FirstOf({m \in SepPositions(time) : m > k}) ELSE Len(time) + 1 IN <<IF SubSeq(time, 1, k - 1) # <<>> THEN SubSeq(time, 1, k - 1) ELSE T0900, IF SubSeq(time, k + 1, n - 1) # <<>> THEN SubSeq(time, k + 1, n - 1) ELSE T1700>> ELSE <<T0900, T1700>>

\* openEditEventDialog(event), event a shift shown in the grid
openEditEventDialog(event) == /\ ~showEventDialog
                              /\ editingEvent' = <<event>>
                              /\ eventForm' = [title |-> event.title, date |-> FormatDate(event.date, tz), startTime |-> ParseTime(event.time)[1], endTime |-> ParseTime(event.time)[2], description |-> event.description, color |-> event.color, assignedTo |-> IF event.assignedTo # NULL THEN event.assignedTo ELSE "", recurrence |-> FALSE, recurrenceEndDate |-> EmptyDateStr]
                              /\ showEventDialog' = TRUE
                              /\ UNCHANGED <<tz, currentWeekStart, events, teamMembers, showOptionsDialog, isLoading, filterEmployeeId, notice, calls, db, nextId, started>>

\* The "Annuler" button
CancelDialog == /\ showEventDialog
                /\ showEventDialog' = FALSE
                /\ UNCHANGED <<tz, currentWeekStart, events, teamMembers, showOptionsDialog, editingEvent, isLoading, filterEmployeeId, eventForm, notice, calls, db, nextId, started>>

\* fetchTeamMembers, called once on mount, succeeds
TeamMembersLoaded == /\ teamMembers = <<>>
                     /\ teamMembers' = Roster
                     /\ UNCHANGED <<tz, currentWeekStart, events, showEventDialog, showOptionsDialog, editingEvent, isLoading, filterEmployeeId, eventForm, notice, calls, db, nextId, started>>

\* What the user types into the open dialog.  The recurrence fields exist
\* only for a new shift (v-if="!editingEvent")
FillForm(title, date, assignedTo, recurrence, recurrenceEndDate) == /\ showEventDialog
                                                                    /\ editingEvent # <<>> => (recurrence = eventForm.recurrence /\ recurrenceEndDate = eventForm.recurrenceEndDate)
                                                                    /\ eventForm' = [eventForm EXCEPT !.title = title, !.date = date, !.assignedTo = assignedTo, !.recurrence = recurrence, !.recurrenceEndDate = recurrenceEndDate]
                                                                    /\ eventForm' # eventForm
                                                                    /\ UNCHANGED <<tz, currentWeekStart, events, teamMembers, showEventDialog, showOptionsDialog, editingEvent, isLoading, filterEmployeeId, notice, calls, db, nextId, started>>

\* ------------------------------------------------------- the planning page
\* A shift as the planning form stores it: dated at UTC midnight of its day
Shift(title, day, assignedTo) == [title |-> title, date |-> ParseDate(day), time |-> TimeString(T0900, T1700), description |-> "", color |-> "blue", assignedTo |-> assignedTo, type |-> "planning"]

\* The store the page finds when it is mounted: one shift of the week before
\* the displayed one, on its Wednesday
SeedStore == <<Row(Shift("Matin", FirstDay + 2, "u1"), 1)>>

\* The browser's time zone on the planning page: one slot ahead of UTC
MountTZ == {1}

\* The end date typed in the dialog: none unless the recurrence box is ticked
TypedEndDate(recurrence) == IF recurrence THEN FirstDay + DaysPerWeek + DaysPerWeek ELSE EmptyDateStr

\* The state once the component is mounted and the roster has arrived:
\* fetchEvents() has sent its GET
Init == /\ tz \in MountTZ
        /\ currentWeekStart = startOfWeek(Now, tz)
        /\ events = <<>>
        /\ teamMembers = Roster
        /\ showEventDialog = FALSE
        /\ showOptionsDialog = FALSE
        /\ editingEvent = <<>>
        /\ isLoading = TRUE
        /\ filterEmployeeId = "all"
        /\ eventForm = BlankForm
        /\ notice = "none"
        /\ calls = <<Call("GET", "fetch", 0, <<>>)>>
        /\ db = SeedStore
        /\ nextId = Len(db) + 1
        /\ started = 0

Next == \/ FetchEvents
        \/ SaveEvent
        \/ DeleteEvent
        \/ DeclineDelete
        \/ DuplicatePreviousWeek
        \/ ToggleOptions
        \/ CancelDialog
        \/ openNewEventDialog("", Now)
        \/ \E e \in ShownEvents : openEditEventDialog(e)
        \/ \E r \in BOOLEAN : FillForm("Matin", eventForm.date, eventForm.assignedTo, r, TypedEndDate(r))
        \/ \E i \in 1..Len(calls) : ServerHandle(i)
        \/ \E i \in 1..Len(calls) : Resolve(i)
        \/ \E i \in 1..Len(calls) : Reject(i)

Spec == Init /\ [][Next]_vars

\* ------------------------------------------- one save from the open dialog
\* The date strings of the calendar, '' and a string that is no date
DateStrings == Days \cup {EmptyDateStr, BadDateStr}

\* The forms of a new shift: any start day, any end date string
NewShiftForms == {[BlankForm EXCEPT !.title = "Matin", !.date = s, !.assignedTo = a, !.recurrence = r, !.recurrenceEndDate = n] : s \in Days, a \in {"", "u1"}, r \in BOOLEAN, n \in DateStrings}

\* The dialog of a new shift is open and filled; one operation is left to start
InitRecur == /\ tz \in TZOffsets
             /\ currentWeekStart = startOfWeek(Now, tz)
             /\ events = <<>>
             /\ teamMembers \in {<<>>, Roster}
             /\ showEventDialog = TRUE
             /\ showOptionsDialog = FALSE
             /\ editingEvent = <<>>
             /\ isLoading = FALSE
             /\ filterEmployeeId = "all"
             /\ eventForm \in NewShiftForms
             /\ notice = "none"
             /\ calls = <<>>
             /\ db = <<>>
             /\ nextId = 1
             /\ started = MaxOps - 1

NextRecur == \/ SaveEvent
             \/ \E i \in 1..Len(calls) : ServerHandle(i)
             \/ \E i \in 1..Len(calls) : Resolve(i)
             \/ \E i \in 1..Len(calls) : Reject(i)

SpecRecur == InitRecur /\ [][NextRecur]_vars

\* The form asks for a weekly recurrence from day S to day E, both dates valid
RecurringForm == ~IsEditing /\ eventForm.recurrence /\ eventForm.date \in Days /\ eventForm.recurrenceEndDate \in Days

\* The call a step adds to the calls in flight, as a sequence of at most one call
Issued == SubSeq(calls', Len(calls) + 1, Len(calls'))

C2_EmptyRecurrence == [][(SaveEvent /\ RecurringForm /\ eventForm.recurrenceEndDate < eventForm.date) => (Issued = <<>> /\ EventsToCreate(eventForm, teamMembers) = <<>>)]_vars

\* saveEvent has run on a form whose end day is before its start day
C2_Witness == /\ eventForm.recurrence /\ eventForm.date \in Days /\ eventForm.recurrenceEndDate \in Days /\ eventForm.recurrenceEndDate < eventForm.date /\ started = MaxOps /\ calls = <<>>

\* C3: with recurrence on and the end date absent or unparsable, saveEvent
\* sends exactly one single create for a shift dated at the start date, and
\* no batch-create.
C3_FallbackToSingle == [][(SaveEvent /\ ~IsEditing /\ eventForm.recurrence /\ eventForm.date \in Days /\ eventForm.recurrenceEndDate \in {EmptyDateStr, BadDateStr}) => (/\ Len(Issued) = 1 /\ Issued[1].verb = "POST" /\ Len(Issued[1].payload) = 1 /\ Issued[1].payload[1].date = eventForm.date * SlotsPerDay)]_vars

\* --------------------------------------- one duplication of the previous week
\* The contents a planning shift may have
ShiftKinds == {[title |-> "Matin", time |-> TimeString(T0900, T1700), description |-> "", color |-> "red", assignedTo |-> "u1"], [title |-> "Soir", time |-> TimeString(<<"18:00">>, <<"22:00">>), description |-> "renfort", color |-> "blue", assignedTo |-> NULL]}

\* The shift of id i, of kind k, stored for day d
StoredShift(i, k, d) == [id |-> i, title |-> k.title, date |-> ParseDate(d), time |-> k.time, description |-> k.description, color |-> k.color, assignedTo |-> k.assignedTo, type |-> "planning"]

\* The collections of at most n stored shifts in the order of GET /api/events
\* (orderBy date asc): each one extends a shorter one by a shift that is not
\* dated before its last
RECURSIVE CollectionsOfLen(_, _, _)
CollectionsOfLen(kinds, days, n) == IF n = 0 THEN {<<>>} ELSE {c \in {Append(s, StoredShift(n, k, d)) : s \in CollectionsOfLen(kinds, days, n - 1), k \in kinds, d \in days} : n = 1 \/ DateLeq(c[n - 1].date, c[n].date)}

\* The collections of at most n such shifts
RECURSIVE CollectionsOf(_, _, _)
CollectionsOf(kinds, days, n) == IF n = 0 THEN {<<>>} ELSE CollectionsOf(kinds, days, n - 1) \cup CollectionsOfLen(kinds, days, n)

\* The collections of at most n shifts of the calendar
CollectionsUpTo(n) == CollectionsOf(ShiftKinds, Days, n)

\* The collections a fetch may leave in memory: up to MaxEvents planning
\* shifts, dated at UTC midnight of a day of the calendar, ordered by date
FetchedCollections == CollectionsUpTo(MaxEvents)

\* The options menu is open on the week of today; one operation is left to start
InitDup == /\ tz \in TZOffsets
           /\ currentWeekStart = startOfWeek(Now, tz)
           /\ events \in FetchedCollections
           /\ teamMembers = Roster
           /\ showEventDialog = FALSE
           /\ showOptionsDialog = TRUE
           /\ editingEvent = <<>>
           /\ isLoading = FALSE
           /\ filterEmployeeId = "all"
           /\ eventForm = BlankForm
           /\ notice = "none"
           /\ calls = <<>>
           /\ db = events
           /\ nextId = Len(events) + 1
           /\ started = MaxOps - 1

NextDup == \/ DuplicatePreviousWeek
           \/ \E i \in 1..Len(calls) : ServerHandle(i)
           \/ \E i \in 1..Len(calls) : Resolve(i)
           \/ \E i \in 1..Len(calls) : Reject(i)

SpecDup == InitDup /\ [][NextDup]_vars

\* The local day T the displayed week starts on
TargetDay == LocalDay(currentWeekStart, tz)

\* The positions in the collection of the shifts of the source week, the
\* seven local days T - 7 .. T - 1
SourceWeek == {j \in 1..Len(events) : LocalDay(events[j].date, tz) \in (TargetDay - DaysPerWeek)..(TargetDay - 1)}

\* The shifts a step sends for creation
IssuedShifts == IF Issued = <<>> THEN <<>> ELSE Issued[1].payload

\* C4: every shift duplicatePreviousWeek sends is dated 7 days after a shift
\* of the collection whose day lies in [T - 7, T - 1].
C4_CopiesComeFromSourceWeek == [][DuplicatePreviousWeek => \A k \in 1..Len(IssuedShifts) : \E j \in SourceWeek : IssuedShifts[k].date = events[j].date + DaysPerWeek * SlotsPerDay]_vars

\* A duplication is in flight that left a shift of the collection out
C4_Witness == \E i \in 1..Len(calls) : calls[i].verb = "BATCH" /\ calls[i].op = "dup" /\ Len(calls[i].payload) >= 1 /\ Len(calls[i].payload) < Len(events) /\ db = events

\* C5: duplicatePreviousWeek sends one shift for every shift of the source
\* week, the first and the last day of the week included.
C5_CopiesWholeSourceWeek == [][DuplicatePreviousWeek => Len(IssuedShifts) = Cardinality(SourceWeek)]_vars

\* C6: with no shift in the source week, duplicatePreviousWeek shows the
\* "nothing to copy" notice, which is not the failure notice, sends nothing
\* and leaves the collection and the store as they are.
C6_NothingToCopy == [][(DuplicatePreviousWeek /\ SourceWeek = {}) => (/\ notice' = "Aucun shift trouve la semaine derniere." /\ notice' # "Erreur lors de la duplication" /\ calls' = calls /\ events' = events /\ db' = db /\ ~isLoading')]_vars

\* The notice is shown for a collection that holds shifts of other weeks
C6_Witness == notice = "Aucun shift trouve la semaine derniere." /\ events # <<>> /\ SourceWeek = {} /\ calls = <<>>

\* C7: the k-th shift sent is the k-th shift selected with its date moved by
\* 7 days: same title, time, description, color and assignedTo, the
\* 'planning' type, and no id.
C7_CopiesKeepContent == [][DuplicatePreviousWeek => \A k \in 1..Len(IssuedShifts) : LET p == IssuedShifts[k] src == EventsToCopy(events, currentWeekStart)[k] IN /\ p.title = src.title /\ p.time = src.time /\ p.description = src.description /\ p.color = src.color /\ p.assignedTo = src.assignedTo /\ p.type = "planning" /\ p.date = src.date + DaysPerWeek * SlotsPerDay /\ DOMAIN p = DOMAIN src \ {"id"}]_vars

\* A duplication is in flight with a copy of an assigned shift and a copy of
\* an unassigned one
C7_Witness == \E i \in 1..Len(calls) : calls[i].verb = "BATCH" /\ calls[i].op = "dup" /\ (\E k \in 1..Len(calls[i].payload) : calls[i].payload[k].assignedTo = "u1") /\ (\E k \in 1..Len(calls[i].payload) : calls[i].payload[k].assignedTo = NULL /\ calls[i].payload[k].description = "renfort")

\* ------------------------------------------------ the facade under overlap
\* The write calls in flight
WritesInFlight == {i \in 1..Len(calls) : calls[i].verb \in Writes}

\* C8: at most one Event Store write (create, batch-create, update, delete)
\* is in flight at any time.
C8_OneWriteAtATime == Cardinality(WritesInFlight) <= 1

\* C9: the facade is Loading exactly while an Event Store call is pending.
C9_LoadingWhilePending == isLoading <=> calls # <<>>

\* The alerts of the three catch blocks
FailureNotices == {"Erreur lors de la sauvegarde", "Erreur lors de la suppression", "Erreur lors de la duplication"}

\* The failure alert of the operation awaiting a call
FailureNoticeOf(c) == CASE c.op = "save" -> "Erreur lors de la sauvegarde"
                        [] c.op = "delete" -> "Erreur lors de la suppression"
                        [] c.op = "dup" -> "Erreur lors de la duplication"
                        [] OTHER -> "none"

\* C10: when a write call of saveEvent, deleteEvent or duplicatePreviousWeek
\* fails, the operation shows its failure alert and has not changed the
\* in-memory collection, neither when it sent the call nor when the call
\* failed.
C10_FailureLeavesCollection == [][((SaveEvent \/ DeleteEvent \/ DuplicatePreviousWeek) => events' = events) /\ (\A i \in 1..Len(calls) : (Reject(i) /\ calls[i].verb \in Writes) => (notice' = FailureNoticeOf(calls[i]) /\ notice' \in FailureNotices /\ events' = events /\ Len(calls') = Len(calls) - 1))]_vars

\* A failed write has been reported while the collection holds shifts
C10_Witness == notice \in {"Erreur lors de la suppression", "Erreur lors de la duplication"} /\ events # <<>>

\* ----------------------------------------- one batch create and its answer
\* Either the dialog of a new shift is open and filled, or the options menu
\* is open on a fetched collection; one operation is left to start
InitBatch == InitRecur \/ InitDup

NextBatch == \/ SaveEvent
             \/ DuplicatePreviousWeek
             \/ \E i \in 1..Len(calls) : ServerHandle(i)
             \/ \E i \in 1..Len(calls) : ServerFail(i)
             \/ \E i \in 1..Len(calls) : Resolve(i)
             \/ \E i \in 1..Len(calls) : Reject(i)

SpecBatch == InitBatch /\ [][NextBatch]_vars

\* The stored row holds the content of the element of the request body
PersistedAs(row, e) == row.title = e.title /\ row.date = e.date /\ row.time = e.time /\ row.description = e.description /\ row.color = e.color /\ row.assignedTo = e.assignedTo /\ row.type = e.type

\* The store after the step holds the store before it, then one row for every
\* element of the batch of call i, in order
AllPersisted(i) == /\ Len(db') = Len(db) + Len(calls[i].payload)
                   /\ SubSeq(db', 1, Len(db)) = db
                   /\ \A j \in 1..Len(calls[i].payload) : PersistedAs(db'[Len(db) + j], calls[i].payload[j])

\* C11: a batch create (recurrence or week duplication) is all-or-nothing in
\* the Event Store: when the server answers it with success every shift of
\* the batch is persisted, when a creation fails the store holds no element
\* of the batch, and no step leaves the store with a part of it.
C11_BatchAllOrNothing == [][\A i \in 1..Len(calls) : calls[i].verb = "BATCH" => ((ServerHandle(i) => AllPersisted(i)) /\ (ServerFail(i) => db' = db) /\ (db' = db \/ AllPersisted(i)))]_vars

\* The server has failed on a batch of two shifts or more
C11_Witness == \E i \in 1..Len(calls) : calls[i].verb = "BATCH" /\ calls[i].stage = "failed" /\ Len(calls[i].payload) >= 2

\* The number of GETs in flight sent by a save or a duplication
Refetches(cs) == Cardinality({j \in 1..Len(cs) : cs[j].verb = "GET" /\ cs[j].op \in {"save", "dup"}})

\* C12: for a batch create of saveEvent or duplicatePreviousWeek the refetch
\* is sent only when the batch call has returned success; when the batch
\* call fails no refetch is sent; and the answer of the batch call, success
\* or failure, never changes the in-memory collection.
C12_RefetchOnlyAfterSuccess == [][(Refetches(calls') > Refetches(calls) => \E i \in 1..Len(calls) : calls[i].verb = "BATCH" /\ calls[i].stage = "done" /\ Resolve(i)) /\ (\A i \in 1..Len(calls) : (calls[i].verb = "BATCH" /\ Reject(i)) => Refetches(calls') = Refetches(calls)) /\ (\A i \in 1..Len(calls) : (calls[i].verb = "BATCH" /\ (Resolve(i) \/ Reject(i))) => events' = events)]_vars

\* The refetch of a batch is answered with more shifts than the collection holds
C12_Witness == \E j \in 1..Len(calls) : calls[j].verb = "GET" /\ calls[j].op \in {"save", "dup"} /\ calls[j].stage = "done" /\ Len(calls[j].resp) > Len(events)

\* ------------------------------------ one write from the dialog or the menu
\* What the fields of the dialog can hold when it is submitted: any title,
\* any date string; the recurrence fields only for a new shift
DialogForms(editing) == {[BlankForm EXCEPT !.title = t, !.date = s, !.assignedTo = a, !.recurrence = r, !.recurrenceEndDate = n] : t \in {"", "Matin"}, s \in DateStrings, a \in {"", "u1"}, r \in IF editing = <<>> THEN BOOLEAN ELSE {FALSE}, n \in IF editing = <<>> THEN DateStrings ELSE {EmptyDateStr}}

\* An event stored by the calendar page: its body has no type and no
\* assignment, the route stores it as 'general'
CalendarEvent(id) == Row([title |-> "Reunion", date |-> ParseDate(FirstDay + 3), time |-> T0900, description |-> "", color |-> "blue", assignedTo |-> NULL, type |-> ""], id)

\* The store of the page: its shift and an event of the calendar page
PageStore == SeedStore \o <<CalendarEvent(Len(SeedStore) + 1)>>

\* The dialog is open on a new shift or on the stored one, with any content;
\* the collection is the one fetched from the store; one operation is left
\* to start
InitSave == /\ tz \in TZOffsets
            /\ currentWeekStart = startOfWeek(Now, tz)
            /\ events = ListEvents(PageStore, "planning")
            /\ teamMembers = Roster
            /\ showEventDialog = TRUE
            /\ showOptionsDialog = FALSE
            /\ editingEvent \in {<<>>, <<SeedStore[1]>>}
            /\ isLoading = FALSE
            /\ filterEmployeeId = "all"
            /\ eventForm \in DialogForms(editingEvent)
            /\ notice = "none"
            /\ calls = <<>>
            /\ db = PageStore
            /\ nextId = Len(db) + 1
            /\ started = MaxOps - 1

InitWrite == InitSave \/ InitDup

NextWrite == \/ SaveEvent
             \/ DuplicatePreviousWeek
             \/ \E i \in 1..Len(calls) : ServerHandle(i)
             \/ \E i \in 1..Len(calls) : ServerFail(i)
             \/ \E i \in 1..Len(calls) : Resolve(i)
             \/ \E i \in 1..Len(calls) : Reject(i)

SpecWrite == InitWrite /\ [][NextWrite]_vars

\* C13: a shift with an empty title or an unparsable date is rejected before
\* any Event Store call: a saveEvent on such a form sends no call.
C13_InvalidShiftNotSent == [][(SaveEvent /\ (eventForm.title = "" \/ ~IsValidDate(ParseDate(eventForm.date)))) => calls' = calls]_vars

\* C14: every shift persisted in the Event Store has a non-empty title and a
\* valid date, whichever path created or changed it: single create, batch
\* create (recurrence or duplication) or update.
C14_PersistedShiftsValid == \A k \in 1..Len(db) : db[k].title # "" /\ IsValidDate(db[k].date)

\* The server has applied a create, a batch create or an update
C14_Witness == \E i \in 1..Len(calls) : calls[i].stage = "done" /\ calls[i].verb \in {"POST", "BATCH", "PUT"} /\ db # <<>>

GridKinds == ShiftKinds \cup {[title |-> "Matin", time |-> TimeString(T0900, T1700), description |-> "", color |-> "green", assignedTo |-> "u2"], [title |-> "Matin", time |-> TimeString(T0900, T1700), description |-> "", color |-> "blue", assignedTo |-> "u3"]}

\* Their days: the Sunday before the week of today, its Monday and its Tuesday
GridDays == {FirstDay + DaysPerWeek - 1, FirstDay + DaysPerWeek, FirstDay + DaysPerWeek + 1}

\* The options of the header's select: 'all' and the roster
FilterOptions == {"all"} \cup {Roster[k].id : k \in 1..Len(Roster)}

\* The page is mounted and its events fetched; the roster has not arrived
InitGrid == /\ tz \in TZOffsets
            /\ currentWeekStart = startOfWeek(Now, tz)
            /\ events \in CollectionsOf(GridKinds, GridDays, MaxEvents)
            /\ teamMembers = <<>>
            /\ showEventDialog = FALSE
            /\ showOptionsDialog = FALSE
            /\ editingEvent = <<>>
            /\ isLoading = FALSE
            /\ filterEmployeeId = "all"
            /\ eventForm = BlankForm
            /\ notice = "none"
            /\ calls = <<>>
            /\ db = events
            /\ nextId = Len(db) + 1
            /\ started = MaxOps

NextGrid == \/ TeamMembersLoaded
            \/ \E f \in FilterOptions : SetFilter(f)
            \/ previousWeek
            \/ nextWeek
            \/ goToToday

SpecGrid == InitGrid /\ [][NextGrid]_vars

\* C16: displayedRows starts with exactly one unassigned row (id = null); it
\* is followed by one row per roster entry, in roster order, when the filter
\* is 'all', and by exactly one roster row, the one whose id is the filter,
\* when the filter is an employee id.
C16_DisplayedRows == /\ Len(displayedRows) >= 1 /\ displayedRows[1].id = NULL
                     /\ \A k \in 2..Len(displayedRows) : displayedRows[k].id # NULL
                     /\ filterEmployeeId = "all" => (Len(displayedRows) = 1 + Len(teamMembers) /\ \A k \in 1..Len(teamMembers) : displayedRows[k + 1].id = teamMembers[k].id)
                     /\ filterEmployeeId # "all" => (Len(displayedRows) = 2 /\ displayedRows[2].id = filterEmployeeId)

\* The filter is the second roster member
C16_Witness == filterEmployeeId = Roster[2].id /\ teamMembers = Roster

\* The ids a row may stand for: nobody, and every assignee of a shift
RowIds == {NULL} \cup {k.assignedTo : k \in GridKinds}

\* C17: in getEventsForCell a shift assigned to X never appears in a cell of
\* a row of another id Y, and a shift assigned to an employee never appears
\* in the unassigned row: every shift of a cell has the id of its row.
C17_NoShiftInOtherRow == \A memberId \in RowIds, d \in 1..DaysPerWeek : \A j \in 1..Len(getEventsForCell(memberId, weekDays[d])) : getEventsForCell(memberId, weekDays[d])[j].assignedTo = memberId

\* With the roster loaded, a displayed cell shows a shift while the
\* collection holds a shift of the same day for another row
C17_Witness == teamMembers = Roster /\ \E r \in 1..Len(displayedRows), d \in 1..DaysPerWeek : getEventsForCell(displayedRows[r].id, weekDays[d]) # <<>> /\ \E k \in 1..Len(events) : isSameDay(events[k].date, weekDays[d], tz) /\ events[k].assignedTo # displayedRows[r].id

\* The positions in the collection of the shifts of row memberId on the
\* local calendar day of date
CellPositions(memberId, date) == {k \in 1..Len(events) : events[k].assignedTo = memberId /\ LocalDay(events[k].date, tz) = LocalDay(date, tz)}

IsWeekStart(d) == d = LocalMidnight(LocalDay(d, tz), tz) /\ (LocalDay(d, tz) - FirstDay) % DaysPerWeek = 0

\* The instant falls in the seven days that start at anchor
InWeekOf(d, anchor) == anchor <= d /\ d < anchor + DaysPerWeek * SlotsPerDay

\* C20: after any sequence of previousWeek, nextWeek and goToToday the anchor
\* currentWeekStart is the first instant of a Monday; previousWeek moves it
\* by exactly 7 days back, nextWeek by exactly 7 days forward, and goToToday
\* sets it to the Monday of the week that holds today.
C20_AnchorIsMonday == [][/\ IsWeekStart(currentWeekStart) /\ IsWeekStart(currentWeekStart')
                         /\ InWeekOf(Now, startOfWeek(Now, tz))
                         /\ previousWeek => currentWeekStart' = currentWeekStart - DaysPerWeek * SlotsPerDay
                         /\ nextWeek => currentWeekStart' = currentWeekStart + DaysPerWeek * SlotsPerDay
                         /\ goToToday => (IsWeekStart(currentWeekStart') /\ InWeekOf(Now, currentWeekStart'))]_vars

\* The window has been moved away from the week of today
C20_Witness == ~InWeekOf(Now, currentWeekStart)

\* C21: a successful single create (saveEvent on a new shift without
\* recurrence) sends exactly one create call, for the shift of the form, and
\* its answer appends exactly the created shift, with the id the server gave
\* it, at the end of the collection; every other entry is unchanged.
C21_SingleCreateAppends == [][/\ (SaveEvent /\ ~IsEditing /\ ~WantsRecurrence(eventForm)) => (Len(Issued) = 1 /\ Issued[1].verb = "POST" /\ Issued[1].payload = <<Payload(eventForm, teamMembers, ParseDate(eventForm.date))>>)
                              /\ \A i \in 1..Len(calls) : (calls[i].verb = "POST" /\ ServerHandle(i)) => (/\ Len(db') = Len(db) + 1 /\ SubSeq(db', 1, Len(db)) = db
                                                                                                          /\ PersistedAs(db'[Len(db')], calls[i].payload[1])
                                                                                                          /\ \A k \in 1..Len(db) : db[k].id # db'[Len(db')].id
                                                                                                          /\ calls'[i].resp = <<db'[Len(db')]>>)
                              /\ \A i \in 1..Len(calls) : (calls[i].verb = "POST" /\ Resolve(i)) => (/\ Len(events') = Len(events) + 1
                                                                                                     /\ SubSeq(events', 1, Len(events)) = events
                                                                                                     /\ events'[Len(events')] = calls[i].resp[1]
                                                                                                     /\ PersistedAs(events'[Len(events')], calls[i].payload[1]))]_vars

\* The dialog has closed on a created shift, the second of the collection
C21_Witness == ~WantsRecurrence(eventForm) /\ ~showEventDialog /\ calls = <<>> /\ Len(events) = 2 /\ events[2].id = Len(PageStore) + 1

\* C22: a successful update (saveEvent on an edited shift) sends exactly one
\* update call, for the edited id, and its answer replaces in place the entry
\* of that id by the shift the Event Store returned; the length of the
\* collection and every other entry are unchanged.
C22_UpdateReplacesInPlace == [][/\ (SaveEvent /\ IsEditing) => (Len(Issued) = 1 /\ Issued[1].verb = "PUT" /\ Issued[1].id = Head(editingEvent).id)
                                /\ \A i \in 1..Len(calls) : (calls[i].verb = "PUT" /\ Resolve(i)) => (/\ Len(events') = Len(events)
                                                                                                    /\ \A k \in 1..Len(events) : events'[k] = IF events[k].id = calls[i].id THEN calls[i].resp[1] ELSE events[k])]_vars

\* The entries of a sequence of shifts whose id is not the given one
Without(shifts, id) == SelectSeq(shifts, LAMBDA e : e.id # id)

\* C23: a confirmed, successful deleteEvent(id) removes the shift of that id
\* from the collection and from the grid cell that held it, and leaves every
\* other shift, and the content of every other cell, unchanged.
C23_DeleteRemovesOnlyThat == [][\A i \in 1..Len(calls) : (calls[i].verb = "DELETE" /\ Resolve(i)) => (/\ \A k \in 1..Len(events') : events'[k].id # calls[i].id
                                                                                                   /\ Len(events') = Cardinality({k \in 1..Len(events) : events[k].id # calls[i].id})
                                                                                                   /\ \A k \in 1..Len(events) : events[k].id # calls[i].id => events'[Cardinality({m \in 1..k : events[m].id # calls[i].id})] = events[k]
                                                                                                   /\ \A memberId \in RowIds, d \in 1..DaysPerWeek : getEventsForCell(memberId, weekDays[d])' = Without(getEventsForCell(memberId, weekDays[d]), calls[i].id))]_vars

\* A shift has been deleted from the store and from the collection, which
\* still holds another shift
C23_Witness == /\ editingEvent # <<>> /\ events # <<>> /\ calls = <<>>
               /\ \A k \in 1..Len(events) : events[k].id # Head(editingEvent).id
               /\ \A k \in 1..Len(db) : db[k].id # Head(editingEvent).id

\* ------------------------------------------------ the composite time string
\* The form with other recurrence fields
WithRecurrence(form, r, n) == [form EXCEPT !.recurrence = r, !.recurrenceEndDate = n]

\* The pieces of a stored time string: times, the separator, a bare dash
TimeTokens == {T0900[1], T1700[1], "18:00", TimeSep[1], "-"}

RECURSIVE TimeStringsOfLen(_)
TimeStringsOfLen(n) == IF n = 0 THEN {<<>>} ELSE {Append(s, t) : s \in TimeStringsOfLen(n - 1), t \in TimeTokens}

\* The time strings of a stored event: '' (or none) and up to MaxTimeLen pieces
TimeStrings == UNION {TimeStringsOfLen(n) : n \in 0..MaxTimeLen}

\* The collection holds one shift of today with any time string; the form
\* is as a closed dialog left it, blank or with its recurrence fields set;
\* one operation is left to start
InitTime == /\ tz \in TZOffsets
            /\ currentWeekStart = startOfWeek(Now, tz)
            /\ events \in {<<[Row(Shift("Matin", FormatDate(Now, tz), "u1"), 1) EXCEPT !.time = t]>> : t \in TimeStrings}
            /\ teamMembers = Roster
            /\ showEventDialog = FALSE
            /\ showOptionsDialog = FALSE
            /\ editingEvent = <<>>
            /\ isLoading = FALSE
            /\ filterEmployeeId = "all"
            /\ eventForm \in {BlankForm, WithRecurrence(BlankForm, TRUE, LastDay)}
            /\ notice = "none"
            /\ calls = <<>>
            /\ db = events
            /\ nextId = Len(db) + 1
            /\ started = MaxOps - 1

NextTime == \/ \E e \in ShownEvents : openEditEventDialog(e)
            \/ CancelDialog
            \/ SaveEvent
            \/ \E i \in 1..Len(calls) : ServerHandle(i)
            \/ \E i \in 1..Len(calls) : Resolve(i)
            \/ \E i \in 1..Len(calls) : Reject(i)

SpecTime == InitTime /\ [][NextTime]_vars

\* C24: formatting a pair (start, end) of well-formed HH:MM times into the
\* composite string (saveEvent) and parsing that string back
\* (openEditEventDialog) yields the original pair: the dialog opened on a
\* shift whose time is the formatted pair shows that pair, and the time a
\* save sends parses back to the pair of the form.
C24_TimeRoundTrip == [][/\ \A e \in ShownEvents, s \in WellFormedTimes, t \in WellFormedTimes : (openEditEventDialog(e) /\ e.time = TimeString(s, t)) => (eventForm'.startTime = s /\ eventForm'.endTime = t)
                        /\ (SaveEvent /\ Len(Issued) = 1) => ParseTime(Issued[1].payload[1].time) = <<eventForm.startTime, eventForm.endTime>>]_vars

\* The dialog is open on a shift stored as "18:00 - 09:00" and shows that pair
C24_Witness == showEventDialog /\ editingEvent # <<>> /\ Head(editingEvent).time = <<"18:00", TimeSep[1], T0900[1]>> /\ eventForm.startTime = <<"18:00">> /\ eventForm.endTime = T0900

\* C26: parsing a time string without the separator " - ", or an absent one,
\* yields the fallback pair 09:00 / 17:00; a part left empty around the
\* separator is replaced by its own fallback value.
C26_TimeFallback == [][\A e \in ShownEvents : openEditEventDialog(e) => (/\ SepPositions(e.time) = {} => (eventForm'.startTime = T0900 /\ eventForm'.endTime = T1700)
                                                                         /\ (e.time # <<>> /\ e.time[1] = TimeSep[1]) => eventForm'.startTime = T0900
                                                                         /\ (e.time # <<>> /\ e.time[Len(e.time)] = TimeSep[1] /\ Cardinality(SepPositions(e.time)) = 1) => eventForm'.endTime = T1700
                                                                         /\ eventForm'.startTime # <<>> /\ eventForm'.endTime # <<>>)]_vars

\* The dialog is open on a shift stored as " - 18:00" and starts at the fallback
C26_Witness == showEventDialog /\ editingEvent # <<>> /\ Head(editingEvent).time = <<TimeSep[1], "18:00">> /\ eventForm.startTime = T0900 /\ eventForm.endTime = <<"18:00">>

\* The color the roster gives the employee of that id
RosterColor(id) == (CHOOSE m \in {teamMembers[k] : k \in 1..Len(teamMembers)} : m.id = id).color

\* C25: the color of a shift sent by saveEvent is the roster color of the
\* assigned employee whenever an employee is set, and the color of the form
\* otherwise.
C25_ColorFromRoster == [][SaveEvent => \A c \in 1..Len(Issued) : \A j \in 1..Len(Issued[c].payload) : Issued[c].payload[j].color = IF eventForm.assignedTo # "" THEN RosterColor(eventForm.assignedTo) ELSE eventForm.color]_vars

\* A shift is on its way with the color of its employee, which is not that of the form
C25_Witness == \E i \in 1..Len(calls) : calls[i].op = "save" /\ calls[i].verb # "GET" /\ calls[i].payload[1].assignedTo = Roster[1].id /\ calls[i].payload[1].color = Roster[1].color /\ eventForm.color # Roster[1].color

\* C27: while an existing shift is edited (editingEvent holds an id)
\* saveEvent sends exactly one update call, for that id, and never a create
\* or a batch create, whatever the recurrence flag and end date of the form
\* hold; opening the edit dialog resets both recurrence fields.
C27_EditNeverCreates == [][/\ (SaveEvent /\ IsEditing) => (Len(Issued) = 1 /\ Issued[1].verb = "PUT" /\ Issued[1].id = Head(editingEvent).id)
                           /\ IsEditing => \A r \in BOOLEAN, n \in DateStrings : LET req == SaveRequest(WithRecurrence(eventForm, r, n), teamMembers, editingEvent) IN Len(req) = 1 /\ req[1].verb = "PUT" /\ req[1].id = Head(editingEvent).id
                           /\ \A e \in ShownEvents : openEditEventDialog(e) => (~eventForm'.recurrence /\ eventForm'.recurrenceEndDate = EmptyDateStr)]_vars

\* The update of the shift under edit is on its way
C27_Witness == showEventDialog /\ IsEditing /\ \E i \in 1..Len(calls) : calls[i].verb = "PUT" /\ calls[i].id = Head(editingEvent).id

\* C28: under every interleaving of fetchEvents, saveEvent, deleteEvent and
\* duplicatePreviousWeek with the answers of their calls, the in-memory
\* collection never holds two entries with the same id.
C28_UniqueIds == \A j \in 1..Len(events), k \in 1..Len(events) : j # k => events[j].id # events[k].id

\* C29: a save of a new shift with recurrence enabled and a recurrence end
\* date earlier than the start date issues no Event Store call (no
\* batch-create, no single create, no refetch), leaves the store and the
\* in-memory collection unchanged, and closes the dialog as a successful save
\* does, with no notification and the loading flag cleared.
C29_EmptyRecurrenceClosesSilently == [][(SaveEvent /\ RecurringForm /\ eventForm.recurrenceEndDate < eventForm.date) => (/\ calls' = calls /\ db' = db /\ events' = events /\ ~showEventDialog' /\ editingEvent' = <<>> /\ ~isLoading' /\ notice' = "none")]_vars

\* A recurring form ending before its start was saved over a collection that
\* holds shifts: the dialog is closed, nothing is in flight, nothing is shown
C29_Witness == /\ eventForm.recurrence /\ eventForm.date \in Days /\ eventForm.recurrenceEndDate \in Days /\ eventForm.recurrenceEndDate < eventForm.date /\ eventForm.title # "" /\ ~showEventDialog /\ editingEvent = <<>> /\ notice = "none" /\ ~isLoading /\ calls = <<>> /\ events # <<>> /\ events = ListEvents(db, "planning") /\ started = MaxOps

\* The number of stored shifts on the seven local days from day `first`
ShiftsOfWeek(rows, first) == Cardinality({j \in 1..Len(rows) : LocalDay(rows[j].date, tz) \in first..(first + DaysPerWeek - 1)})

\* C30: duplicatePreviousWeek does not look at the target week. Each confirmed
\* invocation with k > 0 shifts in the source week issues one batch-create of
\* exactly k shifts, whatever the target week already holds, and the store
\* adds these k shifts to the target week and leaves the source week as it
\* was: two successive invocations leave 2k copies in the target week.
C30_NotIdempotent == [][/\ (DuplicatePreviousWeek /\ SourceWeek # {}) => (Len(Issued) = 1 /\ Issued[1].verb = "BATCH" /\ Len(Issued[1].payload) = Cardinality(SourceWeek))
                        /\ \A i \in 1..Len(calls) : (ServerHandle(i) /\ calls[i].verb = "BATCH" /\ calls[i].op = "dup") => (/\ ShiftsOfWeek(db', TargetDay) = ShiftsOfWeek(db, TargetDay) + Len(calls[i].payload) /\ ShiftsOfWeek(db', TargetDay - DaysPerWeek) = ShiftsOfWeek(db, TargetDay - DaysPerWeek))]_vars

====
